---- MODULE Spec2Model ----
(***************************************************************************)
(* tower-opentelemetry: the Propagator middleware (src/src/lib.rs).        *)
(*                                                                         *)
(* Propagator::call extracts a propagation context from the request        *)
(* headers, builds and starts a server span, attaches it as the active     *)
(* context, initiates the inner service call, wraps the inner future in    *)
(* with_context(cx) and map(closure), detaches and returns the boxed       *)
(* future.  The caller polls that future (or drops it).  Each poll of      *)
(* WithContext attaches cx around the inner poll; when the inner future    *)
(* is ready the map closure runs after WithContext::poll has returned,     *)
(* i.e. after the guard was dropped, under the ambient context of the      *)
(* polling thread.                                                         *)
(*                                                                         *)
(* The propagation codec is the W3C trace-context propagator (fields       *)
(* traceparent and tracestate).  Its extract() and inject() entry points,  *)
(* as called at lib.rs:119 and lib.rs:159, work relative to                *)
(* Context::current().                                                     *)
(***************************************************************************)
EXTENDS Integers, Sequences, FiniteSets, TLC

\* ------------------------------------------------------------------ bounds
NReq == 2          \* number of requests passed to Propagator::call
MaxPolls == 1      \* polls (of any returned future) that may come back pending

Req == 1..NReq

\* ------------------------------------------------------------ header values
\* A header value: text (HeaderValue::to_str succeeds) or opaque bytes; a
\* traceparent value is "ver-tid-sid-flags", everything else is raw text.
Raw(s) == [text |-> TRUE, ver |-> "", tid |-> 0, sid |-> 0, raw |-> s]
Bytes(s) == [text |-> FALSE, ver |-> "", tid |-> 0, sid |-> 0, raw |-> s]
FormatTraceparent(tid, sid) == [text |-> TRUE, ver |-> "00", tid |-> tid, sid |-> sid, raw |-> "01"]

EmptyHeaders == [n \in {} |-> <<>>]

\* ----------------------------------------------------------------- contexts
\* An opentelemetry Context, reduced to the span it designates as active:
\* none, a span of the caller ("outer"), a remote span context, or the span
\* of request r.  tid/sid are the ids of that span (0 = invalid).
NoCtx == [kind |-> "none", tid |-> 0, sid |-> 0, ts |-> "", req |-> 0]
OuterCtx == [kind |-> "outer", tid |-> 900, sid |-> 901, ts |-> "", req |-> 0]
RemoteCtx(tid, sid, ts) == [kind |-> "remote", tid |-> tid, sid |-> sid, ts |-> ts, req |-> 0]
SpanCtx(r, tid, ts) == [kind |-> "span", tid |-> tid, sid |-> r, ts |-> ts, req |-> r]

HasActiveSpan(cx) == cx.tid # 0 /\ cx.sid # 0

\* -------------------------------------------------------------- header maps
\* http::HeaderMap: header name -> non-empty sequence of values.
HeaderGet(h, k) == IF k \in DOMAIN h THEN [some |-> TRUE, val |-> h[k][1]] ELSE [some |-> FALSE, val |-> Raw("")]

\* A faulty insert that starts from an empty map.
HeaderInsertFresh(h, k, v) == [n \in {k} |-> <<v>>]

\* HeaderMap::insert: the key then holds exactly the one new value.
HeaderInsert(h, k, v) == [n \in (DOMAIN h) \cup {k} |-> IF n = k THEN <<v>> ELSE h[n]]

\* RequestHeaderCarrier::get: first value of the key, when it is valid text.
CarrierGet(h, k) ==
  LET g == HeaderGet(h, k)
  IN IF g.some /\ g.val.text THEN [some |-> TRUE, val |-> g.val] ELSE [some |-> FALSE, val |-> Raw("")]

\* ResultHeaderCarrier::set.  The names and values the trace-context codec
\* writes are always encodable, so HeaderName::from_bytes and
\* HeaderValue::from_str succeed and the insert is all that happens.
CarrierSet(h, k, v) == HeaderInsert(h, k, v)

\* A faulty carrier that takes the trace header out of the request.
RequestHeaderCarrierDrain(headers) ==
  [headers |-> [n \in (DOMAIN headers) \ {"traceparent"} |-> headers[n]]]

\* RequestHeaderCarrier::new: the carrier borrows the request's own map.
RequestHeaderCarrier(headers) == [headers |-> headers]

\* ------------------------------------------------------------------- inputs
Uri(scheme, authority, hasPQ, path, hasQuery, query) ==
  [scheme |-> scheme, authority |-> authority, hasPQ |-> hasPQ, path |-> path,
   hasQuery |-> hasQuery, query |-> query]

Request(method, uri, version, headers, body) ==
  [method |-> method, uri |-> uri, version |-> version, headers |-> headers, body |-> body]

NoRequest == Request("", Uri("", "", FALSE, "", FALSE, ""), "", EmptyHeaders, "")

Response(status, headers, body) == [status |-> status, headers |-> headers, body |-> body]

NoResponse == Response(0, EmptyHeaders, "")

\* What a poll of the inner future returns.
Pending == [kind |-> "pending", resp |-> NoResponse, err |-> ""]
ReadyOk(resp) == [kind |-> "ok", resp |-> resp, err |-> ""]
ReadyErr(e) == [kind |-> "err", resp |-> NoResponse, err |-> e]

\* Request header collections: a valid trace context with a text user agent,
\* none at all, an unparsable traceparent with a non-text user agent and a
\* two-valued header, an all-zero trace id, a non-text traceparent.
HdrValid ==
  [n \in {"traceparent", "tracestate", "user-agent"} |->
     CASE n = "traceparent" -> <<FormatTraceparent(101, 201)>>
       [] n = "tracestate" -> <<Raw("k=v")>>
       [] OTHER -> <<Raw("curl/8")>>]
HdrGarbage ==
  [n \in {"traceparent", "user-agent", "x-tag"} |->
     CASE n = "traceparent" -> <<Raw("garbage")>>
       [] n = "user-agent" -> <<Bytes("ua")>>
       [] OTHER -> <<Raw("a"), Raw("b")>>]
HdrZeroId == [n \in {"traceparent", "accept"} |->
                IF n = "traceparent" THEN <<FormatTraceparent(0, 201)>> ELSE <<Raw("*/*")>>]
HdrBytes == [n \in {"traceparent"} |-> <<Bytes("tp"), FormatTraceparent(102, 202)>>]

RequestHeaderMaps == {HdrValid, EmptyHeaders, HdrGarbage, HdrZeroId, HdrBytes}

\* Origin form with and without query, authority form, absolute form.
UriOrders == Uri("", "", TRUE, "/orders", TRUE, "id=7")
Uris ==
  { UriOrders,
    Uri("", "", TRUE, "/", FALSE, ""),
    Uri("", "example.com:443", FALSE, "", FALSE, ""),
    Uri("http", "example.com", TRUE, "/a", TRUE, "") }

Methods == {"GET", "PURGE"}
Versions == {"HTTP_09", "HTTP_10", "HTTP_11", "HTTP_2", "HTTP_3"}

\* Requests of the single-request specification.
AllRequests ==
  { Request(m, u, v, h, "body") : m \in Methods, u \in Uris, v \in Versions, h \in RequestHeaderMaps }

\* Requests of the concurrent specification.
SampleRequests ==
  { Request("GET", UriOrders, "HTTP_11", HdrValid, "b1"),
    Request("PURGE", Uri("", "", TRUE, "/", FALSE, ""), "HTTP_2", HdrGarbage, "b2") }

\* Response header collections the inner service may produce.
RespPlain == [n \in {"content-type"} |-> <<Raw("text/plain")>>]
RespStale ==
  [n \in {"set-cookie", "traceparent"} |->
     IF n = "set-cookie" THEN <<Raw("a=1"), Raw("b=2")>>
     ELSE <<FormatTraceparent(777, 888), Raw("stale")>>]

Statuses == {100, 200, 404, 499, 599, 600} \cup (500..511)

AllResponses == { Response(st, h, "payload") : st \in Statuses, h \in {RespPlain, RespStale} }

SampleResponses ==
  { Response(200, RespPlain, "ok"),
    Response(500, RespStale, "oops") }

\* The error values the inner service may produce.
Errors == {"e1", "e2"}

PollResults(responses) ==
  {Pending} \cup {ReadyOk(resp) : resp \in responses} \cup {ReadyErr(e) : e \in Errors}

\* Contexts the polling thread may have active apart from the middleware.
AmbientContexts == {NoCtx, OuterCtx}

\* Results of SYSTEM.host_name().
HostNames == {[some |-> FALSE, name |-> ""], [some |-> TRUE, name |-> "host-a"]}

\* ----------------------------------------------------------- pure functions
http_method_str(method) ==
  CASE method = "OPTIONS" -> "OPTIONS"
    [] method = "GET" -> "GET"
    [] method = "POST" -> "POST"
    [] method = "PUT" -> "PUT"
    [] method = "DELETE" -> "DELETE"
    [] method = "HEAD" -> "HEAD"
    [] method = "TRACE" -> "TRACE"
    [] method = "CONNECT" -> "CONNECT"
    [] method = "PATCH" -> "PATCH"
    [] OTHER -> method

http_flavor(version) ==
  CASE version = "HTTP_09" -> "0.9"
    [] version = "HTTP_10" -> "1.0"
    [] version = "HTTP_11" -> "1.1"
    [] version = "HTTP_2" -> "2.0"
    [] version = "HTTP_3" -> "3.0"
    [] OTHER -> version

\* A faulty span name that takes the query along.
UriPathWithQuery(uri) ==
  IF uri.hasPQ /\ uri.hasQuery THEN "/path?query" ELSE IF uri.hasPQ THEN uri.path ELSE ""

\* Uri::path, Uri::path_and_query().as_str(), Uri::to_string() as the parts
\* they concatenate.
UriPath(uri) == IF uri.hasPQ THEN uri.path ELSE ""
UriQueryParts(uri) == IF uri.hasPQ /\ uri.hasQuery THEN <<"?", uri.query>> ELSE <<>>
PathAndQueryStr(uri) == <<uri.path>> \o UriQueryParts(uri)
UriToString(uri) ==
  (IF uri.scheme # "" THEN <<uri.scheme, "://">> ELSE <<>>)
  \o (IF uri.authority # "" THEN <<uri.authority>> ELSE <<>>)
  \o <<UriPath(uri)>> \o UriQueryParts(uri)

\* A faulty range check that also takes the client errors.
IsServerErrorFrom400(status) == 400 <= status /\ status < 600

\* A faulty range check that takes every status from 200 on.
IsServerErrorFrom200(status) == 200 <= status /\ status < 600

\* StatusCode::is_server_error
IsServerError(status) == 500 <= status /\ status < 600

\* StatusCode::canonical_reason: the registered phrase, or None.
Reason(phrase) == [some |-> TRUE, phrase |-> phrase]
CanonicalReason(status) ==
  CASE status = 200 -> Reason("OK")
    [] status = 404 -> Reason("Not Found")
    [] status = 500 -> Reason("Internal Server Error")
    [] status = 501 -> Reason("Not Implemented")
    [] status = 502 -> Reason("Bad Gateway")
    [] status = 503 -> Reason("Service Unavailable")
    [] status = 504 -> Reason("Gateway Timeout")
    [] status = 505 -> Reason("HTTP Version Not Supported")
    [] status = 506 -> Reason("Variant Also Negotiates")
    [] status = 507 -> Reason("Insufficient Storage")
    [] status = 508 -> Reason("Loop Detected")
    [] status = 510 -> Reason("Not Extended")
    [] status = 511 -> Reason("Network Authentication Required")
    [] OTHER -> [some |-> FALSE, phrase |-> ""]

\* A faulty description that is always empty.
StatusDescriptionEmpty(status) == <<>>

\* canonical_reason().map(ToString::to_string).unwrap_or_default(); a string
\* is the sequence of its parts, the empty string is <<>>.
StatusDescription(status) ==
  LET r == CanonicalReason(status) IN IF r.some THEN <<r.phrase>> ELSE <<>>

\* format!("{:?}", err) and the Display text record_exception stores.
DebugFmt(err) == <<"Debug", err>>
DisplayFmt(err) == <<"Display", err>>

\* -------------------------------------------------------------------- spans
StrAttr(k, parts) == [key |-> k, isInt |-> FALSE, str |-> parts, int |-> 0]
IntAttr(k, i) == [key |-> k, isInt |-> TRUE, str |-> <<>>, int |-> i]

Status(code, desc) == [code |-> code, desc |-> desc]

NoSpan ==
  [started |-> 0, ended |-> 0, name |-> "", kind |-> "", parent |-> NoCtx,
   tid |-> 0, sid |-> 0, ts |-> "", attributes |-> <<>>,
   status |-> Status("Unset", <<>>), events |-> <<>>]

\* Trace id the tracer draws for a new root span of request r.
NewTraceId(r) == 10 + r

\* -------------------------------------------------------------- propagation
ValidTraceparent(v) == v.ver = "00" /\ v.tid # 0 /\ v.sid # 0

\* propagator.extract(&RequestHeaderCarrier): the remote span context of a
\* valid traceparent laid over Context::current(), else Context::current().
Extract(carrier, cur) ==
  LET tp == CarrierGet(carrier.headers, "traceparent")
      ts == CarrierGet(carrier.headers, "tracestate")
  IN IF tp.some /\ ValidTraceparent(tp.val)
     THEN RemoteCtx(tp.val.tid, tp.val.sid, IF ts.some THEN ts.val.raw ELSE "")
     ELSE cur

\* propagator.inject(&mut ResultHeaderCarrier): writes the span context of
\* Context::current() (the argument cur), when that one is valid.
Inject(cur, headers) ==
  IF HasActiveSpan(cur)
  THEN CarrierSet(CarrierSet(headers, "traceparent", FormatTraceparent(cur.tid, cur.sid)),
                  "tracestate", Raw(cur.ts))
  ELSE headers

\* ------------------------------------------------- codecs and encodability
\* The installed text-map propagator: the trace-context codec, or a codec
\* that adds a field whose name, or whose value, is not a legal header.
Codecs == {"tracecontext", "badname", "badvalue"}

Field(name, value) == [name |-> name, value |-> value]

\* The fields inject hands to ResultHeaderCarrier::set, in order, for the
\* context cur; nothing when cur holds no valid span.
InjectFields(codec, cur) ==
  IF ~HasActiveSpan(cur) THEN <<>>
  ELSE <<Field("traceparent", FormatTraceparent(cur.tid, cur.sid)), Field("tracestate", Raw(cur.ts))>>
       \o (CASE codec = "badname" -> <<Field("x trace", Raw("1"))>>
             [] codec = "badvalue" -> <<Field("x-trace", Bytes("caf\\xe9"))>>
             [] OTHER -> <<>>)

\* HeaderName::from_bytes(key).is_ok() and HeaderValue::from_str(&value).is_ok()
ValidHeaderName(k) == k \notin {"", "x trace"}
ValidHeaderValue(v) == v.text

\* ResultHeaderCarrier::set panics in one of its two expect() calls.
SetPanics(k, v) == ~ValidHeaderName(k) \/ ~ValidHeaderValue(v)

\* A faulty injection that skips what it cannot encode instead of panicking.
InjectPanicsNever(codec, cur) == FALSE

\* The injection of the Ok arm panics: some field cannot be encoded.  When it
\* does not panic the fields written are those of Inject.
InjectPanics(codec, cur) ==
  \E i \in DOMAIN InjectFields(codec, cur) :
    SetPanics(InjectFields(codec, cur)[i].name, InjectFields(codec, cur)[i].value)

\* ------------------------------------------------------------- poll_ready
\* What the inner service's poll_ready may return.
NotPolled == [kind |-> "none", err |-> ""]
InnerReadiness ==
  {[kind |-> "pending", err |-> ""], [kind |-> "ready", err |-> ""]}
  \cup {[kind |-> "err", err |-> e] : e \in Errors}

\* A faulty poll_ready that always reports ready.
PollReadyAlways(innerResult) == [kind |-> "ready", err |-> ""]

\* Propagator::poll_ready: self.inner.poll_ready(cx)
PropagatorPollReady(innerResult) == innerResult

\* A faulty attribute list that writes a placeholder for a missing user agent.
AttributesPlaceholder(request, host) ==
  <<[key |-> "http.method", isInt |-> FALSE, str |-> <<http_method_str(request.method)>>, int |-> 0],
    [key |-> "http.flavor", isInt |-> FALSE, str |-> <<http_flavor(request.version)>>, int |-> 0],
    [key |-> "http.url", isInt |-> FALSE, str |-> UriToString(request.uri), int |-> 0]>>
  \o (IF host.some
      THEN <<[key |-> "net.host.name", isInt |-> FALSE, str |-> <<host.name>>, int |-> 0]>>
      ELSE <<>>)
  \o (IF request.uri.hasPQ
      THEN <<[key |-> "http.target", isInt |-> FALSE, str |-> PathAndQueryStr(request.uri), int |-> 0]>>
      ELSE <<>>)
  \o (LET ua == CarrierGet(request.headers, "user-agent")
      IN <<[key |-> "http.user_agent", isInt |-> FALSE,
            str |-> IF ua.some THEN <<ua.val.raw>> ELSE <<"unknown">>, int |-> 0]>>)

\* ------------------------------------------------------------ span building
Attributes(request, host) ==
  <<StrAttr("http.method", <<http_method_str(request.method)>>),
    StrAttr("http.flavor", <<http_flavor(request.version)>>),
    StrAttr("http.url", UriToString(request.uri))>>
  \o (IF host.some THEN <<StrAttr("net.host.name", <<host.name>>)>> ELSE <<>>)
  \o (IF request.uri.hasPQ THEN <<StrAttr("http.target", PathAndQueryStr(request.uri))>> ELSE <<>>)
  \o (LET ua == CarrierGet(request.headers, "user-agent")
      IN IF ua.some THEN <<StrAttr("http.user_agent", <<ua.val.raw>>)>> ELSE <<>>)

\* span_builder(path).with_parent_context(parent).with_kind(Server), the
\* attributes, and tracer.build: the span is started here.
BuildSpan(r, request, parent, host) ==
  [started |-> 1, ended |-> 0,
   name |-> UriPath(request.uri), kind |-> "Server", parent |-> parent,
   tid |-> IF HasActiveSpan(parent) THEN parent.tid ELSE NewTraceId(r),
   sid |-> r,
   ts |-> IF HasActiveSpan(parent) THEN parent.ts ELSE "",
   attributes |-> Attributes(request, host),
   status |-> Status("Unset", <<>>), events |-> <<>>]

\* Context::current_with_span(span)
CurrentWithSpan(r, sp) == SpanCtx(r, sp.tid, sp.ts)

\* A faulty attach that leaves the active context alone, and a faulty guard
\* that leaves the attached context in place.
AttachNothing(cur, c) == [current |-> cur, previous |-> cur]
DropGuardLeak(guard) == guard.current

\* Context::attach returns the guard holding the previous context; dropping
\* the guard puts the previous context back.
Attach(cur, c) == [current |-> c, previous |-> cur]
DropGuard(guard) == guard.previous

\* ----------------------------------------------------------- span operations
SetAttribute(sp, a) == [sp EXCEPT !.attributes = Append(@, a)]
SetStatus(sp, code, desc) == [sp EXCEPT !.status = Status(code, desc)]
RecordException(sp, err) ==
  [sp EXCEPT !.events = Append(@, [name |-> "exception", message |-> DisplayFmt(err)])]
End(sp) == [sp EXCEPT !.ended = @ + 1]

\* A faulty Ok arm that ends the span before it records the status code.
OkArmEndFirst(sp, resp, cur) ==
  LET injected == [resp EXCEPT !.headers = Inject(cur, resp.headers)]
      s1 == SetAttribute(End(sp), IntAttr("http.status_code", injected.status))
  IN [span |-> s1, result |-> ReadyOk(injected),
      events |-> <<"inject", "end", "set_attribute">>]

\* A faulty Err arm that ends the span before it records the failure.
ErrArmEndFirst(sp, err) ==
  [span |-> RecordException(SetStatus(End(sp), "Error", DebugFmt(err)), err),
   result |-> ReadyErr(err),
   events |-> <<"end", "set_status", "record_exception">>]

\* A faulty Err arm that records no exception event.
ErrArmNoException(sp, err) ==
  [span |-> End(SetStatus(sp, "Error", DebugFmt(err))),
   result |-> ReadyErr(err),
   events |-> <<"set_status", "end">>]

\* A faulty closure that works on one span shared by all requests.
CapturedSpanShared(r) == 1

\* The span the move closure reaches through its captured cx (cx.span()):
\* the one built for the same request.
CapturedSpan(r) == r

\* ---------------------------------------------------------- the map closure
\* Ok arm: inject, http.status_code, error status on 5xx, end, Ok(ok_res).
OkArm(sp, resp, cur) ==
  LET injected == [resp EXCEPT !.headers = Inject(cur, resp.headers)]
      s1 == SetAttribute(sp, IntAttr("http.status_code", injected.status))
      s2 == IF IsServerError(injected.status)
            THEN SetStatus(s1, "Error", StatusDescription(injected.status))
            ELSE s1
  IN [span |-> End(s2), result |-> ReadyOk(injected),
      events |-> <<"inject", "set_attribute">>
                 \o (IF IsServerError(injected.status) THEN <<"set_status">> ELSE <<>>)
                 \o <<"end">>]

\* Err arm: error status, exception event, end, Err(err).
ErrArm(sp, err) ==
  [span |-> End(RecordException(SetStatus(sp, "Error", DebugFmt(err)), err)),
   result |-> ReadyErr(err),
   events |-> <<"set_status", "record_exception", "end">>]

MapClosure(sp, res, cur) ==
  IF res.kind = "ok" THEN OkArm(sp, res.resp, cur) ELSE ErrArm(sp, res.err)

\* ------------------------------------------------------------ order of steps
\* The steps of one request are fed, in the order the code takes them, to an
\* observer that follows the order
\*   extract, start, attach, invoke, detach,
\*   (attach, resume, detach)*, attach, resume, complete, detach,
\*   [inject,] record+, end
\* and goes to "bad" on any other step.
IsRecord(e) == e \in {"set_attribute", "set_status", "record_exception"}

OrderStep(st, e) ==
  CASE st = "init" /\ e = "extract" -> "extracted"
    [] st = "extracted" /\ e = "start" -> "started"
    [] st = "started" /\ e = "attach" -> "attached"
    [] st = "attached" /\ e = "invoke" -> "invoked"
    [] st = "invoked" /\ e = "detach" -> "suspended"
    [] st = "suspended" /\ e = "attach" -> "reattached"
    [] st = "reattached" /\ e = "resume" -> "resumed"
    [] st = "resumed" /\ e = "detach" -> "suspended"
    [] st = "resumed" /\ e = "complete" -> "completed"
    [] st = "completed" /\ e = "detach" -> "detached"
    [] st = "detached" /\ e = "inject" -> "injected"
    [] st \in {"injected", "recorded"} /\ IsRecord(e) -> "recorded"
    [] st = "recorded" /\ e = "end" -> "ended"
    [] st \in {"detached", "recorded_noinject"} /\ IsRecord(e) -> "recorded_noinject"
    [] st = "recorded_noinject" /\ e = "end" -> "ended_noinject"
    [] OTHER -> "bad"

RECURSIVE OrderRun(_, _)
OrderRun(st, events) ==
  IF events = <<>> THEN st ELSE OrderRun(OrderStep(st, Head(events)), Tail(events))

\* -------------------------------------------------------------------- state
VARIABLES
  hostName,    \* SYSTEM.host_name(), fixed for the process
  current,     \* the active context of the thread (Context::current())
  pc,          \* per request: "idle", "pending", "done", "dropped", "panicked"
  req,         \* the request call received
  delivered,   \* the request handed to inner.call
  span,        \* the span of the request
  cx,          \* the context captured by the returned future
  observed,    \* active contexts the inner service saw while it ran
  inner,       \* what the inner future completed with
  result,      \* what the returned future resolved to
  order,       \* observer of the order of the request's steps
  polls,       \* polls that came back pending so far
  codec,       \* the installed text-map propagator
  readiness    \* the last poll_ready: what inner returned, what Propagator returned

vars == <<hostName, current, pc, req, delivered, span, cx, observed, inner, result, order, polls,
          codec, readiness>>

InitRequests ==
  /\ hostName \in HostNames
  /\ current \in AmbientContexts
  /\ pc = [r \in Req |-> "idle"]
  /\ req = [r \in Req |-> NoRequest]
  /\ delivered = [r \in Req |-> NoRequest]
  /\ span = [r \in Req |-> NoSpan]
  /\ cx = [r \in Req |-> NoCtx]
  /\ observed = [r \in Req |-> {}]
  /\ inner = [r \in Req |-> Pending]
  /\ result = [r \in Req |-> Pending]
  /\ order = [r \in Req |-> "init"]
  /\ polls = 0
  /\ readiness = [inner |-> NotPolled, outer |-> NotPolled]

\* The trace-context codec is installed.
Init == InitRequests /\ codec = "tracecontext"

\* Any codec is installed.
InitService == InitRequests /\ codec \in Codecs

\* Propagator::call for the r-th request (requests are numbered in call order).
Call(r, requests) ==
  /\ pc[r] = "idle"
  /\ \A q \in Req : q < r => pc[q] # "idle"
  /\ \E request \in requests :
       LET carrier == RequestHeaderCarrier(request.headers)
           parent == Extract(carrier, current)
           handed == [request EXCEPT !.headers = carrier.headers]
           sp == BuildSpan(r, handed, parent, hostName)
           c == CurrentWithSpan(r, sp)
           attachment == Attach(current, c)
       IN /\ req' = [req EXCEPT ![r] = request]
          /\ span' = [span EXCEPT ![r] = sp]
          /\ cx' = [cx EXCEPT ![r] = c]
          \* inner.call(req) runs with the attachment in place
          /\ delivered' = [delivered EXCEPT ![r] = handed]
          /\ observed' = [observed EXCEPT ![r] = @ \cup {attachment.current}]
          \* drop(attachment)
          /\ current' = DropGuard(attachment)
          /\ order' = [order EXCEPT ![r] =
                         OrderRun(@, <<"extract", "start", "attach", "invoke", "detach">>)]
  /\ pc' = [pc EXCEPT ![r] = "pending"]
  /\ UNCHANGED <<hostName, inner, result, polls, codec, readiness>>

\* One poll of the returned future: Map polls WithContext, which attaches cx,
\* polls the inner future and drops the guard; on Ready the closure runs.
Poll(r, responses) ==
  /\ pc[r] = "pending"
  /\ \E out \in PollResults(responses) :
       LET guard == Attach(current, cx[r])
           after == DropGuard(guard)
       IN /\ out.kind = "pending" => polls < MaxPolls
          /\ observed' = [observed EXCEPT ![r] = @ \cup {guard.current}]
          /\ current' = after
          /\ IF out.kind = "pending"
             THEN /\ polls' = polls + 1
                  /\ order' = [order EXCEPT ![r] = OrderRun(@, <<"attach", "resume", "detach">>)]
                  /\ UNCHANGED <<pc, span, inner, result>>
             ELSE IF out.kind = "ok" /\ InjectPanics(codec, after)
             \* expect() panics inside inject: the closure unwinds out of poll
             \* before it touches the span, and the future yields no value
             THEN /\ inner' = [inner EXCEPT ![r] = out]
                  /\ order' = [order EXCEPT ![r] =
                                 OrderRun(@, <<"attach", "resume", "complete", "detach", "inject">>)]
                  /\ pc' = [pc EXCEPT ![r] = "panicked"]
                  /\ UNCHANGED <<span, result, polls>>
             ELSE LET done == MapClosure(span[CapturedSpan(r)], out, after)
                  IN /\ inner' = [inner EXCEPT ![r] = out]
                     /\ span' = [span EXCEPT ![CapturedSpan(r)] = done.span]
                     /\ result' = [result EXCEPT ![r] = done.result]
                     /\ order' = [order EXCEPT ![r] =
                                    OrderRun(@, <<"attach", "resume", "complete", "detach">>
                                                \o done.events)]
                     /\ pc' = [pc EXCEPT ![r] = "done"]
                     /\ UNCHANGED polls
  /\ UNCHANGED <<hostName, req, delivered, cx, codec, readiness>>

\* Propagator::poll_ready
PollReady ==
  /\ \E innerResult \in InnerReadiness :
       readiness' = [inner |-> innerResult, outer |-> PropagatorPollReady(innerResult)]
  /\ UNCHANGED <<hostName, current, pc, req, delivered, span, cx, observed, inner, result, order,
                 polls, codec>>

\* The caller drops the returned future before it resolved: the inner future,
\* the closure and the captured contexts go with it; no code of call runs.
DropFuture(r) ==
  /\ pc[r] = "pending"
  /\ pc' = [pc EXCEPT ![r] = "dropped"]
  /\ UNCHANGED <<hostName, current, req, delivered, span, cx, observed, inner, result, order, polls,
               codec, readiness>>

\* Between two steps of the middleware the thread's active context is the
\* caller's business (an outer span entered or left, another worker thread).
AmbientSwitch ==
  /\ \E c \in AmbientContexts : c # current /\ current' = c
  /\ UNCHANGED <<hostName, pc, req, delivered, span, cx, observed, inner, result, order, polls,
               codec, readiness>>

\* Concurrent requests drawn from the sample inputs.
Next ==
  \/ \E r \in Req : Call(r, SampleRequests)
  \/ \E r \in Req : Poll(r, SampleResponses)
  \/ \E r \in Req : DropFuture(r)
  \/ AmbientSwitch

Spec == Init /\ [][Next]_vars

\* One request drawn from all the inputs.
NextSingle ==
  \/ Call(1, AllRequests)
  \/ Poll(1, AllResponses)
  \/ DropFuture(1)
  \/ AmbientSwitch

SpecSingle == Init /\ [][NextSingle]_vars

\* The whole service interface for one request, under any codec.
NextService ==
  \/ PollReady
  \/ Call(1, SampleRequests)
  \/ Poll(1, SampleResponses)
  \/ DropFuture(1)
  \/ AmbientSwitch

SpecService == InitService /\ [][NextService]_vars

\* ================================================================== claims
Called(r) == pc[r] # "idle"
Done(r) == pc[r] = "done"
DoneOk(r) == pc[r] = "done" /\ inner[r].kind = "ok"
DoneErr(r) == pc[r] = "done" /\ inner[r].kind = "err"

\* The values of the attribute `key` on a span.
AttrsOf(sp, key) ==
  {sp.attributes[i] : i \in {j \in DOMAIN sp.attributes : sp.attributes[j].key = key}}

\* ---- C1
\* C1: for every request, whatever its outcome (response, error, or the
\* returned future dropped before the inner future completed), exactly one
\* span was started and it was ended exactly once.
C1_SpanEndedExactlyOnce ==
  \A r \in Req : pc[r] \in {"done", "dropped"} => span[r].started = 1 /\ span[r].ended = 1

\* ---- C2
\* C2: when the inner future completes with an error E, the returned future
\* resolves to Err(E) with E unchanged and no response, no header collection
\* is written, and the span has status Error described by E and exactly one
\* exception event recording E.
C2_ErrorReturnedAndRecorded ==
  \A r \in Req : DoneErr(r) =>
    /\ result[r].kind = "err"
    /\ result[r].err = inner[r].err
    /\ result[r].resp = NoResponse
    /\ delivered[r].headers = req[r].headers
    /\ span[r].status = Status("Error", DebugFmt(inner[r].err))
    /\ span[r].events = <<[name |-> "exception", message |-> DisplayFmt(inner[r].err)]>>
    /\ span[r].ended = 1

C2_Witness == \E r \in Req : DoneErr(r) /\ inner[r].err = "e2"

\* ---- C3
\* C3: call attaches the span's context for the inner call and detaches it
\* before it returns, and every poll of the returned future does the same:
\* after call or a poll the thread's active context is what it was before,
\* and is not the request's span context.
C3_ContextDetachedOnReturn ==
  [][\A r \in Req :
       (Call(r, SampleRequests) \/ Poll(r, SampleResponses)) =>
         /\ current' = current
         /\ current' # cx'[r]
         /\ cx'[r] \in observed'[r]]_vars

C3_Witness ==
  \E r \in Req : pc[r] = "pending" /\ polls > 0 /\ current = OuterCtx /\ cx[r] \in observed[r]

\* ---- C4
\* C4: whenever the inner computation of request r runs (inside call and at
\* every poll), the active context it sees is the context of r's own span,
\* never the ambient one and never that of another request, under every
\* interleaving of the polls of concurrent requests.
C4_DownstreamSeesOwnSpan ==
  \A r \in Req :
    /\ Called(r) => observed[r] = {SpanCtx(r, span[r].tid, span[r].ts)}
    /\ ~Called(r) => observed[r] = {}
    /\ \A q \in Req \ {r} : \A c \in observed[r] : c.req # q

C4_Witness ==
  /\ \A r \in Req : Called(r)
  /\ polls = MaxPolls
  /\ \E r, q \in Req : r # q /\ pc[r] = "done" /\ pc[q] = "pending"

\* ---- C5
\* C5 as stated: every request whose future resolved went through extract,
\* start, attach, invoke, the suspensions, completion, injection into the
\* response headers, recording of the outcome and end, none skipped.
C5_AllStepsInOrder ==
  \A r \in Req : Done(r) => order[r] = "ended"

\* C5 (amended): the steps of a request always follow the order extract,
\* start, attach, invoke, detach, (attach, resume, detach)*, attach, resume,
\* complete, detach, then on a response inject, record, end and on an error
\* record, end without any injection; a request that is pending or whose
\* future was dropped stands right after a detach.
C5_StepsInOrder ==
  \A r \in Req :
    /\ order[r] # "bad"
    /\ pc[r] = "idle" => order[r] = "init"
    /\ pc[r] \in {"pending", "dropped"} => order[r] = "suspended"
    /\ DoneOk(r) => order[r] = "ended"
    /\ DoneErr(r) => order[r] = "ended_noinject"

C5_Witness ==
  /\ polls > 0
  /\ \E r, q \in Req : DoneOk(r) /\ order[r] = "ended" /\ DoneErr(q)

\* ---- C6
\* C6 as stated: a response with any 5xx status is returned as Ok, the span
\* has http.status_code equal to the status and status Error with a non-empty
\* description.
C6_AnyServerErrorDescribed ==
  \A r \in Req :
    (DoneOk(r) /\ inner[r].resp.status \in 500..599) =>
      /\ result[r].kind = "ok"
      /\ AttrsOf(span[r], "http.status_code") = {IntAttr("http.status_code", inner[r].resp.status)}
      /\ span[r].status.code = "Error"
      /\ span[r].status.desc # <<>>

\* C6 (amended): a response with a 5xx status is returned as Ok with that
\* status, the span has http.status_code equal to the status and status
\* Error; the description is the reason phrase for the statuses that have a
\* registered one (500..508, 510, 511) and is empty for every other 5xx code.
C6_ServerErrorDescribedWhenRegistered ==
  \A r \in Req :
    (DoneOk(r) /\ inner[r].resp.status \in 500..599) =>
      LET st == inner[r].resp.status IN
      /\ result[r].kind = "ok"
      /\ result[r].resp.status = st
      /\ AttrsOf(span[r], "http.status_code") = {IntAttr("http.status_code", st)}
      /\ span[r].status.code = "Error"
      /\ st \in (500..508) \cup {510, 511} <=> span[r].status.desc # <<>>
      /\ st = 500 => span[r].status.desc = <<"Internal Server Error">>
      /\ st = 503 => span[r].status.desc = <<"Service Unavailable">>
      /\ st = 511 => span[r].status.desc = <<"Network Authentication Required">>

C6_Witness ==
  DoneOk(1) /\ inner[1].resp.status = 503 /\ span[1].status.desc = <<"Service Unavailable">>

\* ---- C7
\* C7: for a response whose status is not 5xx the span status is not Error at
\* any point of the request (before completion nor after it), and
\* http.status_code equals the status of the response.
C7_NonServerErrorNotMarked ==
  \A r \in Req :
    /\ ~Done(r) => span[r].status.code # "Error"
    /\ (DoneOk(r) /\ inner[r].resp.status \notin 500..599) =>
         /\ span[r].status.code # "Error"
         /\ AttrsOf(span[r], "http.status_code")
              = {IntAttr("http.status_code", inner[r].resp.status)}

C7_Witness == DoneOk(1) /\ inner[1].resp.status = 404 /\ span[1].ended = 1

\* ---- C8
\* C8: a request that carries a valid inbound propagation context and whose
\* inner call completes with a response gets a response that contains an
\* injected traceparent header.
InboundValid(r) ==
  LET tp == CarrierGet(req[r].headers, "traceparent") IN tp.some /\ ValidTraceparent(tp.val)

C8_TraceparentInjected ==
  \A r \in Req :
    (DoneOk(r) /\ InboundValid(r)) =>
      /\ "traceparent" \in DOMAIN result[r].resp.headers
      /\ Len(result[r].resp.headers["traceparent"]) = 1
      /\ ValidTraceparent(result[r].resp.headers["traceparent"][1])

\* ---- C9
\* C9: on the success path the returned response differs from the response
\* of the inner service only in the propagation keys: every other header
\* keeps its name and all its values, none is added, and status and body are
\* the same.
PropagationKeys == {"traceparent", "tracestate"}

C9_OnlyPropagationKeysChange ==
  \A r \in Req :
    DoneOk(r) =>
      LET before == inner[r].resp
          after == result[r].resp
      IN /\ result[r].kind = "ok"
         /\ after.status = before.status
         /\ after.body = before.body
         /\ (DOMAIN after.headers) \ PropagationKeys = (DOMAIN before.headers) \ PropagationKeys
         /\ \A n \in (DOMAIN before.headers) \ PropagationKeys : after.headers[n] = before.headers[n]

C9_Witness ==
  /\ DoneOk(1)
  /\ inner[1].resp.headers = RespStale
  /\ result[1].resp.headers # inner[1].resp.headers
  /\ result[1].resp.headers["set-cookie"] = <<Raw("a=1"), Raw("b=2")>>

\* ---- C10
\* C10: the request handed to the inner service has exactly the headers,
\* method, URI, version and body of the request call received.
C10_RequestUnchanged ==
  \A r \in Req :
    Called(r) =>
      /\ delivered[r].headers = req[r].headers
      /\ delivered[r].method = req[r].method
      /\ delivered[r].uri = req[r].uri
      /\ delivered[r].version = req[r].version
      /\ delivered[r].body = req[r].body

C10_Witness ==
  Called(1) /\ req[1].headers = HdrValid /\ span[1].parent = RemoteCtx(101, 201, "k=v")

\* ---- C11
\* C11: with a valid inbound propagation context the span carries that
\* context's trace id and has its span id as parent; with none or an invalid
\* one the span is a new trace root, whatever context is active when call is
\* entered.
C11_ParentLinkage ==
  \A r \in Req :
    Called(r) =>
      IF InboundValid(r)
      THEN LET tp == CarrierGet(req[r].headers, "traceparent").val
           IN /\ span[r].tid = tp.tid
              /\ span[r].parent.sid = tp.sid
              /\ span[r].parent.kind = "remote"
      ELSE /\ ~HasActiveSpan(span[r].parent)
           /\ span[r].tid = NewTraceId(r)

\* ---- C12
\* C12: the attributes given to the span at creation are, in this order,
\* http.method, http.flavor, http.url (always), net.host.name (only when the
\* host name resolved), http.target (only when the URI has a path and
\* query), http.user_agent (only when the header is present and valid text),
\* each with the value of its source and never a placeholder.
CreationAttributes(r) ==
  SelectSeq(span[r].attributes, LAMBDA a : a.key # "http.status_code")

FlavorOf(version) ==
  CASE version = "HTTP_09" -> "0.9" [] version = "HTTP_10" -> "1.0"
    [] version = "HTTP_11" -> "1.1" [] version = "HTTP_2" -> "2.0"
    [] version = "HTTP_3" -> "3.0"

UserAgentPresent(r) ==
  "user-agent" \in DOMAIN req[r].headers /\ req[r].headers["user-agent"][1].text

C12_AttributesAtCreation ==
  \A r \in Req :
    Called(r) =>
      LET attrs == CreationAttributes(r)
          keys == [i \in DOMAIN attrs |-> attrs[i].key]
          val(k) == (CHOOSE a \in AttrsOf(span[r], k) : TRUE).str
      IN /\ keys = <<"http.method", "http.flavor", "http.url">>
                   \o (IF hostName.some THEN <<"net.host.name">> ELSE <<>>)
                   \o (IF req[r].uri.hasPQ THEN <<"http.target">> ELSE <<>>)
                   \o (IF UserAgentPresent(r) THEN <<"http.user_agent">> ELSE <<>>)
         /\ \A i \in DOMAIN attrs : ~attrs[i].isInt
         /\ val("http.method") = <<req[r].method>>
         /\ val("http.flavor") = <<FlavorOf(req[r].version)>>
         /\ hostName.some => val("net.host.name") = <<hostName.name>>
         /\ req[r].uri.hasPQ => val("http.target")[1] = req[r].uri.path
         /\ UserAgentPresent(r) => val("http.user_agent") = <<req[r].headers["user-agent"][1].raw>>
         /\ pc[r] = "pending" => span[r].attributes = attrs

C12_Witness ==
  /\ Called(1)
  /\ ~hostName.some
  /\ req[1].headers = HdrGarbage
  /\ ~req[1].uri.hasPQ
  /\ Len(span[1].attributes) = 3

\* ---- C14
\* C14: the propagation context injected into the response headers of a
\* request identifies that request's own span (its trace id and span id),
\* whatever context is active on the thread when the completion runs.
C14_InjectedContextIsOwnSpan ==
  \A r \in Req :
    DoneOk(r) =>
      /\ "traceparent" \in DOMAIN result[r].resp.headers
      /\ result[r].resp.headers["traceparent"] = <<FormatTraceparent(span[r].tid, span[r].sid)>>

\* ---- C16
\* C16: once the span of a request is ended nothing is written to it any
\* more: on both paths end is the last operation on the span, it is ended
\* once, and the completion runs at most once per request.
C16_NothingAfterEnd ==
  [][\A r \in Req :
       /\ span[r].ended >= 1 => (span'[r] = span[r] /\ result'[r] = result[r])
       /\ span'[r].ended >= 1 =>
            /\ span'[r].ended = 1
            /\ order'[r] \in {"ended", "ended_noinject"}
            /\ pc'[r] = "done"]_vars

C16_Witness ==
  \E r, q \in Req : DoneOk(r) /\ DoneErr(q) /\ span[r].ended = 1 /\ span[q].ended = 1

\* ---- C18
\* C18 as stated: for a 200 response the final status of the ended span is
\* Ok.
C18_FinalStatusOk ==
  \A r \in Req : (DoneOk(r) /\ inner[r].resp.status = 200) => span[r].status.code = "Ok"

\* C18 (amended): for a 200 response the final status of the ended span is
\* Unset with an empty description: the status is never set, neither to Ok
\* nor to Error.
C18_FinalStatusUnset ==
  \A r \in Req :
    (DoneOk(r) /\ inner[r].resp.status = 200) =>
      span[r].ended = 1 /\ span[r].status = Status("Unset", <<>>)

C18_Witness == DoneOk(1) /\ inner[1].resp.status = 200 /\ span[1].ended = 1

\* ---- C19
\* C19: the span of every request is named with the path of the request URI,
\* without the query string, and has kind Server.
C19_SpanNameAndKind ==
  \A r \in Req :
    Called(r) =>
      /\ span[r].kind = "Server"
      /\ span[r].name = (IF req[r].uri.hasPQ THEN req[r].uri.path ELSE "")

C19_Witness == Called(1) /\ req[1].uri = UriOrders /\ span[1].name = "/orders"

\* ---- C15
\* C15: a step of one request (call, a poll, the completion, the drop of its
\* future) writes attributes, status and events only to that request's own
\* span, ends only that span and injects only into that request's own
\* response: the span, the request, the context and the result of every
\* other request stay as they were, under every interleaving.
StepOf(r) ==
  Call(r, SampleRequests) \/ Poll(r, SampleResponses) \/ DropFuture(r)

C15_OtherRequestsUntouched ==
  [][\A r \in Req :
       StepOf(r) =>
         \A q \in Req \ {r} :
           /\ span'[q] = span[q]
           /\ result'[q] = result[q]
           /\ inner'[q] = inner[q]
           /\ req'[q] = req[q]
           /\ delivered'[q] = delivered[q]
           /\ cx'[q] = cx[q]
           /\ observed'[q] = observed[q]
           /\ pc'[q] = pc[q]]_vars

C15_Witness ==
  /\ DoneOk(2) /\ span[2].ended = 1
  /\ pc[1] = "pending" /\ span[1].ended = 0 /\ span[1].status.code = "Unset"

\* ---- C13
\* C13: poll_ready returns exactly what the inner service's poll_ready
\* returned (pending, ready or the error) and does nothing else: no span is
\* started, no context changes, no request is touched.
C13_PollReadyDelegates ==
  [][readiness' # readiness =>
       /\ readiness'.outer = readiness'.inner
       /\ readiness'.inner \in InnerReadiness
       /\ UNCHANGED <<hostName, current, pc, req, delivered, span, cx, observed, inner, result,
                      order, polls, codec>>]_vars

C13_Witness ==
  /\ readiness.inner = [kind |-> "err", err |-> "e2"]
  /\ readiness.outer = [kind |-> "err", err |-> "e2"]
  /\ pc[1] = "pending"

\* ---- C17
\* C17: when the injection into the response headers meets a header name or
\* value that cannot be encoded, the completion panics: the future yields
\* neither a response nor an error, the span is left as it was, and nothing
\* recovers the request afterwards; the completion panics in no other case.
C17_UnencodableInjectionIsFatal ==
  [][\A r \in Req :
       LET completesOk == pc[r] = "pending" /\ pc'[r] # "pending" /\ inner'[r].kind = "ok"
           unencodable == codec \in {"badname", "badvalue"} /\ current.tid # 0 /\ current.sid # 0
       IN /\ (completesOk /\ unencodable) =>
               /\ pc'[r] = "panicked"
               /\ result'[r] = Pending
               /\ span'[r] = span[r]
          /\ (pc[r] # "panicked" /\ pc'[r] = "panicked") => (completesOk /\ unencodable)
          /\ pc[r] = "panicked" =>
               /\ pc'[r] = "panicked"
               /\ result'[r] = Pending
               /\ span'[r] = span[r]]_vars

C17_Witness ==
  /\ pc[1] = "panicked"
  /\ codec = "badvalue"
  /\ inner[1].kind = "ok"
  /\ result[1] = Pending
  /\ current = NoCtx

====
